---- MODULE Spec2Model ----
(***************************************************************************)
(* JSON -> CSV conversion: the web handler of app.py (fetch, locate the    *)
(* row array, flatten, aggregate the columns, stream header and rows) and  *)
(* the command-line convert() of convert.py.                               *)
(*                                                                         *)
(* A Python str is a sequence of one-character strings; a JSON value is a  *)
(* record [t, n, s, ks, cs]: t is the Python type after json parsing,      *)
(* n the number (or 1/0 for a bool), s the text of a str, ks the keys of a *)
(* dict in insertion order, cs the values of a dict or the items of a list.*)
(***************************************************************************)
EXTENDS Integers, Sequences, FiniteSets, TLC

VARIABLES source, pc, error, data, flat_rows, columns, idx, out, cli

vars == <<source, pc, error, data, flat_rows, columns, idx, out, cli>>

(* ---------------------------------------------------------------- bounds *)
MaxRows == 3
MaxMembers == 2
NumJobs == 2

Jobs == 1..NumJobs

(* ----------------------------------------------------------- JSON values *)
Null == [t |-> "NoneType", n |-> 0, s |-> << >>, ks |-> << >>, cs |-> << >>]
Bool(b) == [t |-> "bool", n |-> b, s |-> << >>, ks |-> << >>, cs |-> << >>]
Num(i) == [t |-> "int", n |-> i, s |-> << >>, ks |-> << >>, cs |-> << >>]
Str(x) == [t |-> "str", n |-> 0, s |-> x, ks |-> << >>, cs |-> << >>]
List(items) == [t |-> "list", n |-> 0, s |-> << >>, ks |-> << >>, cs |-> items]
Dict(keys, values) == [t |-> "dict", n |-> 0, s |-> << >>, ks |-> keys, cs |-> values]

IsDict(v) == v.t = "dict"
IsList(v) == v.t = "list"
IsScalar(v) == ~IsDict(v) /\ ~IsList(v)

(* ---------------------------------------------------------------- strings *)
\* Code point of a character: Python orders str by code point.
ord(c) ==
    CASE c = "." -> 46
      [] c = "0" -> 48 [] c = "1" -> 49 [] c = "2" -> 50 [] c = "3" -> 51
      [] c = "4" -> 52 [] c = "5" -> 53 [] c = "6" -> 54 [] c = "7" -> 55
      [] c = "8" -> 56 [] c = "9" -> 57
      [] c = "F" -> 70 [] c = "T" -> 84
      [] c = "[" -> 91 [] c = "]" -> 93
      [] c = "a" -> 97 [] c = "b" -> 98 [] c = "e" -> 101 [] c = "i" -> 105
      [] c = "k" -> 107 [] c = "l" -> 108 [] c = "m" -> 109 [] c = "o" -> 111
      [] c = "r" -> 114 [] c = "s" -> 115 [] c = "t" -> 116 [] c = "u" -> 117
      [] c = "x" -> 120

\* x < y for two str values.
RECURSIVE StrLess(_, _)
StrLess(x, y) ==
    IF y = << >> THEN FALSE
    ELSE IF x = << >> THEN TRUE
    ELSE IF ord(Head(x)) # ord(Head(y)) THEN ord(Head(x)) < ord(Head(y))
    ELSE StrLess(Tail(x), Tail(y))

Digit(d) ==
    CASE d = 0 -> "0" [] d = 1 -> "1" [] d = 2 -> "2" [] d = 3 -> "3"
      [] d = 4 -> "4" [] d = 5 -> "5" [] d = 6 -> "6" [] d = 7 -> "7"
      [] d = 8 -> "8" [] d = 9 -> "9"

\* str(i) of a non-negative int: its decimal digits.
RECURSIVE IntStr(_)
IntStr(i) == IF i < 10 THEN <<Digit(i)>> ELSE IntStr(i \div 10) \o <<Digit(i % 10)>>

(* ---------------------------------------------------------------- flatten *)
sep == <<".">>

\* d.update(other): the entries of other replace those of d.
update(d, other) ==
    [k \in DOMAIN d \cup DOMAIN other |-> IF k \in DOMAIN other THEN other[k] ELSE d[k]]

EmptyDict == [k \in {} |-> Null]

RECURSIVE flatten(_, _)
RECURSIVE flatten_dict_loop(_, _, _, _)
RECURSIVE flatten_list_loop(_, _, _, _)

\* Variant: an empty dict or list is recorded under its own key, as None.
flatten_keeping_empties(obj, parent_key) ==
    IF (IsDict(obj) \/ IsList(obj)) /\ Len(obj.cs) = 0 THEN [k \in {parent_key} |-> Null]
    ELSE IF IsDict(obj) THEN flatten_dict_loop(obj, parent_key, 1, EmptyDict)
    ELSE IF IsList(obj) THEN flatten_list_loop(obj, parent_key, 1, EmptyDict)
    ELSE [k \in {parent_key} |-> obj]

\* for k, v in obj.items(): from the i-th member on, with the items so far.
flatten_dict_loop(obj, parent_key, i, items) ==
    IF i > Len(obj.cs) THEN items
    ELSE LET k == obj.ks[i]
             v == obj.cs[i]
             new_key == IF parent_key # << >> THEN parent_key \o sep \o k ELSE k
         IN flatten_dict_loop(obj, parent_key, i + 1, update(items, flatten(v, new_key)))

\* for i, v in enumerate(obj): the model's i is Python's i + 1.
flatten_list_loop(obj, parent_key, i, items) ==
    IF i > Len(obj.cs) THEN items
    ELSE LET v == obj.cs[i]
             new_key == parent_key \o <<"[">> \o IntStr(i - 1) \o <<"]">>
         IN flatten_list_loop(obj, parent_key, i + 1, update(items, flatten(v, new_key)))

flatten(obj, parent_key) ==
    IF IsDict(obj) THEN flatten_dict_loop(obj, parent_key, 1, EmptyDict)
    ELSE IF IsList(obj) THEN flatten_list_loop(obj, parent_key, 1, EmptyDict)
    ELSE [k \in {parent_key} |-> obj]

(* ------------------------------------------------------------ find_array *)
\* The first member (1-based) of a dict that the scan of its values stops at:
\* a non-empty list or a dict; 0 when the scan runs to the end.
RECURSIVE first_hit(_, _)

\* Variant: a non-empty list anywhere among the values wins over a dict
\* before it; a dict is taken only when no value is a non-empty list.
first_hit_list_first(node, i) ==
    LET lists == {m \in i..Len(node.cs) : IsList(node.cs[m]) /\ Len(node.cs[m].cs) > 0}
        dicts == {m \in i..Len(node.cs) : IsDict(node.cs[m])}
    IN IF lists # {} THEN CHOOSE m \in lists : \A n \in lists : m <= n
       ELSE IF dicts # {} THEN CHOOSE m \in dicts : \A n \in dicts : m <= n
       ELSE 0

first_hit(node, i) ==
    IF i > Len(node.cs) THEN 0
    ELSE IF IsList(node.cs[i]) /\ Len(node.cs[i].cs) > 0 THEN i
    ELSE IF IsDict(node.cs[i]) THEN i
    ELSE first_hit(node, i + 1)

\* The while loop of find_array from `node` on; `visited` lists the dicts the
\* loop has scanned. Yields the returned value and the dicts scanned.
RECURSIVE find_array_loop(_, _, _)

\* Variant: the fallback wraps the dict the descent stopped at, [node].
find_array_loop_wrapping_node(doc, node, visited) ==
    IF ~IsDict(node)
    THEN [value |-> IF IsList(node) THEN node ELSE List(<<node>>), visited |-> visited]
    ELSE LET i == first_hit(node, 1)
             seen == Append(visited, node)
         IN IF i = 0
            THEN [value |-> List(<<node>>), visited |-> seen]
            ELSE IF IsList(node.cs[i])
            THEN [value |-> node.cs[i], visited |-> seen]
            ELSE find_array_loop(doc, node.cs[i], seen)

find_array_loop(doc, node, visited) ==
    IF ~IsDict(node)
    THEN [value |-> IF IsList(node) THEN node ELSE List(<<doc>>), visited |-> visited]
    ELSE LET i == first_hit(node, 1)
             seen == Append(visited, node)
         IN IF i = 0
            THEN [value |-> List(<<doc>>), visited |-> seen]
            ELSE IF IsList(node.cs[i])
            THEN [value |-> node.cs[i], visited |-> seen]
            ELSE find_array_loop(doc, node.cs[i], seen)

find_array(doc) == find_array_loop(doc, doc, << >>).value

\* The dicts find_array scans, in order (the root first).
find_array_visited(doc) == find_array_loop(doc, doc, << >>).visited

(* ------------------------------------------------------------- aggregate *)
\* sorted(all_keys): ascending by str comparison.
RECURSIVE sorted(_)
sorted(S) ==
    IF S = {} THEN << >>
    ELSE LET m == CHOOSE x \in S : \A y \in S \ {x} : StrLess(x, y)
         IN <<m>> \o sorted(S \ {m})

\* for row in data: flat = flatten(row); flat_rows.append(flat);
\* all_keys.update(flat.keys())
RECURSIVE aggregate_loop(_, _, _, _)

\* Variant: all_keys = set(flat.keys()), the key set replaced by each row's.
aggregate_loop_replacing(rows, i, rows_so_far, all_keys) ==
    IF i > Len(rows) THEN [flat_rows |-> rows_so_far, all_keys |-> all_keys]
    ELSE LET flat == flatten(rows[i], << >>)
         IN aggregate_loop(rows, i + 1, Append(rows_so_far, flat), DOMAIN flat)

aggregate_loop(rows, i, rows_so_far, all_keys) ==
    IF i > Len(rows) THEN [flat_rows |-> rows_so_far, all_keys |-> all_keys]
    ELSE LET flat == flatten(rows[i], << >>)
         IN aggregate_loop(rows, i + 1, Append(rows_so_far, flat), all_keys \cup DOMAIN flat)

(* -------------------------------------------------------------- csv rows *)
\* The text the csv writer gives a field: None is empty, anything else str().
field_text(v) ==
    CASE v.t = "NoneType" -> << >>
      [] v.t = "bool" -> IF v.n = 1 THEN <<"T", "r", "u", "e">> ELSE <<"F", "a", "l", "s", "e">>
      [] v.t = "int" -> IntStr(v.n)
      [] v.t = "str" -> v.s

\* DictWriter(fieldnames, extrasaction="ignore").writerow(rowdict): one field
\* per fieldname, rowdict.get(name, "") rendered; other entries are ignored.
writerow(fieldnames, rowdict) ==
    [c \in 1..Len(fieldnames) |->
        IF fieldnames[c] \in DOMAIN rowdict THEN field_text(rowdict[fieldnames[c]]) ELSE << >>]

\* DictWriter.writeheader(): the fieldnames as a row.
writeheader(fieldnames) == fieldnames

(* ------------------------------------------------- convert.py (CLI copy) *)
RECURSIVE cli_flatten(_, _)
RECURSIVE cli_flatten_dict_loop(_, _, _, _)
RECURSIVE cli_flatten_list_loop(_, _, _, _)

cli_flatten_dict_loop(obj, parent_key, i, items) ==
    IF i > Len(obj.cs) THEN items
    ELSE LET k == obj.ks[i]
             v == obj.cs[i]
             new_key == IF parent_key # << >> THEN parent_key \o sep \o k ELSE k
         IN cli_flatten_dict_loop(obj, parent_key, i + 1,
                                  update(items, cli_flatten(v, new_key)))

cli_flatten_list_loop(obj, parent_key, i, items) ==
    IF i > Len(obj.cs) THEN items
    ELSE LET v == obj.cs[i]
             new_key == parent_key \o <<"[">> \o IntStr(i - 1) \o <<"]">>
         IN cli_flatten_list_loop(obj, parent_key, i + 1,
                                  update(items, cli_flatten(v, new_key)))

cli_flatten(obj, parent_key) ==
    IF IsDict(obj) THEN cli_flatten_dict_loop(obj, parent_key, 1, EmptyDict)
    ELSE IF IsList(obj) THEN cli_flatten_list_loop(obj, parent_key, 1, EmptyDict)
    ELSE [k \in {parent_key} |-> obj]

\* for key, value in node.items(): the member the scan breaks at, 0 if none.
RECURSIVE cli_first_hit(_, _)
cli_first_hit(node, i) ==
    IF i > Len(node.cs) THEN 0
    ELSE IF IsList(node.cs[i]) /\ Len(node.cs[i].cs) > 0 THEN i
    ELSE IF IsDict(node.cs[i]) THEN i
    ELSE cli_first_hit(node, i + 1)

\* while isinstance(node, dict): node moves to the member the scan broke at,
\* list or dict alike; the value of node when the loop ends.
RECURSIVE cli_locate_loop(_)
cli_locate_loop(node) ==
    IF ~IsDict(node) THEN node
    ELSE LET i == cli_first_hit(node, 1)
         IN IF i = 0 THEN node ELSE cli_locate_loop(node.cs[i])

\* Variant: data = node if isinstance(node, list) else [node].
cli_locate_wrapping_node(doc) ==
    LET node == cli_locate_loop(doc)
    IN IF IsList(node) THEN node ELSE List(<<node>>)

\* data = node if isinstance(node, list) else [data]
cli_locate(doc) ==
    LET node == cli_locate_loop(doc)
    IN IF IsList(node) THEN node ELSE List(<<doc>>)

RECURSIVE cli_aggregate_loop(_, _, _, _)
cli_aggregate_loop(rows, i, rows_so_far, all_keys) ==
    IF i > Len(rows) THEN [flat_rows |-> rows_so_far, all_keys |-> all_keys]
    ELSE LET flat == cli_flatten(rows[i], << >>)
         IN cli_aggregate_loop(rows, i + 1, Append(rows_so_far, flat),
                               all_keys \cup DOMAIN flat)

\* writer.writerows(flat_rows)
writerows(fieldnames, rows) == [r \in 1..Len(rows) |-> writerow(fieldnames, rows[r])]

(* ---------------------------------------------------------------- inputs *)
KeyA == <<"a">>
KeyB == <<"b">>
KeyEmpty == << >>
KeyDotted == <<"a", ".", "b">>
KeyIndexed == <<"a", "[", "0", "]">>

EmptyObject == Dict(<< >>, << >>)
EmptyArray == List(<< >>)

\* dicts of exactly n members with distinct keys of K and values of V
Dicts(K, V, n) ==
    {Dict(ks, cs) : ks \in {f \in [1..n -> K] : \A x, y \in 1..n : x # y => f[x] # f[y]},
                    cs \in [1..n -> V]}

\* lists of exactly n items of V
Lists(V, n) == {List(cs) : cs \in [1..n -> V]}

\* Rows that exercise flatten: members named "a", "", "a.b", "a[0]" holding a
\* scalar, an empty container, or a container of one such value.
FlattenLeaves == {Num(1), EmptyObject, EmptyArray}

FlattenInner ==
    FlattenLeaves
      \cup {Dict(<<k>>, <<Num(1)>>) : k \in {KeyA, KeyB}}
      \cup {List(<<Num(1)>>), Dict(<<KeyA>>, <<EmptyObject>>), List(<<EmptyArray>>)}

FlattenRows ==
    UNION {Dicts({KeyA, KeyEmpty, KeyDotted, KeyIndexed}, FlattenInner, n)
             \cup Lists(FlattenInner, n) : n \in 1..MaxMembers}

FlattenDocs == {List(<<r>>) : r \in FlattenRows}

\* Root arrays of up to MaxRows rows of mixed shape and scalar type.
SimpleRows ==
    { Num(1), Null, EmptyObject,
      Dict(<<KeyA>>, <<Str(<<"a">>)>>),
      Dict(<<KeyB>>, <<Bool(1)>>),
      Dict(<<KeyA, KeyB>>, <<Null, Num(10)>>),
      List(<<Num(2)>>) }

ArrayDocs == UNION {Lists(SimpleRows, n) : n \in 0..MaxRows}

ScalarDocs == {Null, Bool(0), Bool(1), Num(1), Str(<<"a">>)}

\* Root objects for the locator: members "a" then "b" holding a scalar, an
\* empty array, one of two distinct non-empty arrays, or an object of these.
ItemsA == List(<<Dict(<<KeyA>>, <<Num(1)>>)>>)
ItemsB == List(<<Dict(<<KeyB>>, <<Num(2)>>), Null>>)
LocatorLeaves == {Num(1), EmptyArray, ItemsA, ItemsB}

Objects(V) ==
    {EmptyObject} \cup {Dict(<<KeyA>>, <<v>>) : v \in V}
                  \cup {Dict(<<KeyA, KeyB>>, <<v, w>>) : v \in V, w \in V}

LocatorInner == Objects(LocatorLeaves)
LocatorNested == Objects(LocatorLeaves \cup LocatorInner)

LocatorDocs ==
    LocatorNested
      \cup {Dict(<<KeyA>>, <<d>>) : d \in LocatorNested}
      \cup {Dict(<<KeyA, KeyB>>, <<Num(1), d>>) : d \in LocatorNested}
      \cup {Dict(<<KeyA, KeyB>>, <<d, ItemsA>>) : d \in LocatorNested}

\* {"meta": {"ok": true}, "items": [{"x": 1}]}
MetaItemsDoc ==
    Dict(<<<<"m", "e", "t", "a">>, <<"i", "t", "e", "m", "s">>>>,
         <<Dict(<<<<"o", "k">>>>, <<Bool(1)>>), List(<<Dict(<<<<"x">>>>, <<Num(1)>>)>>)>>)

Docs == FlattenDocs \cup ArrayDocs \cup ScalarDocs \cup LocatorDocs \cup {MetaItemsDoc}

\* What a request's URL yields: a parsed document, or one of the failures the
\* handler tells apart. NoRequest marks a job slot no request arrives on.
Ok(d) == [status |-> "ok", body |-> d]
Fault(f) == [status |-> f, body |-> Null]
Faults == {Fault("bad_url"), Fault("fetch_error"), Fault("invalid_json")}
NoRequest == Fault("none")

Sources == {Ok(d) : d \in Docs} \cup Faults

\* Requests served side by side by the one gevent worker.
ConcurrentSources ==
    { Ok(EmptyArray),
      Ok(Num(1)),
      Ok(List(<<Dict(<<KeyA>>, <<Str(<<"a">>)>>), Dict(<<KeyB>>, <<Bool(1)>>)>>)),
      Ok(MetaItemsDoc),
      Ok(Dict(<<KeyA>>, <<ItemsB>>)),
      Fault("fetch_error"),
      Fault("invalid_json") }

(* ------------------------------------------------------------------ state *)
\* source[j]   what the URL of request j yields
\* pc[j]       "none" | "start" | "fetched" | "error" | "stream" | "rows" | "done"
\* error[j]    the error page rendered for request j ("" when none)
\* data[j], flat_rows[j], columns[j]   the locals of convert() for request j
\* idx[j]      rows the generator of request j has written
\* out[j]      the chunks the generator of request j has yielded
\* cli         the CLI run of convert.py on the document of source[1]
NoData == Null

CliStart == [pc |-> "start", data |-> NoData, flat_rows |-> << >>, columns |-> << >>,
             file |-> << >>]

InitLocals ==
    /\ pc = [j \in Jobs |-> IF source[j].status = "none" THEN "none" ELSE "start"]
    /\ error = [j \in Jobs |-> ""]
    /\ data = [j \in Jobs |-> NoData]
    /\ flat_rows = [j \in Jobs |-> << >>]
    /\ columns = [j \in Jobs |-> << >>]
    /\ idx = [j \in Jobs |-> 0]
    /\ out = [j \in Jobs |-> << >>]
    /\ cli = CliStart

\* One request, any document or failure.
Init ==
    /\ \E s \in Sources : source = [j \in Jobs |-> IF j = 1 THEN s ELSE NoRequest]
    /\ InitLocals

\* A request on every job slot.
InitConcurrent ==
    /\ source \in [Jobs -> ConcurrentSources]
    /\ InitLocals

\* Variant: the local is a module-level global, one for all requests.
bind_global(locals, j, value) == [k \in DOMAIN locals |-> value]

\* A local of request j is bound: each call of convert() has its own frame.
bind(locals, j, value) == [locals EXCEPT ![j] = value]

\* Variant: any root that is no list is wrapped, [data].
locate_wrapping(doc) ==
    IF IsDict(doc) THEN find_array(doc) ELSE IF IsList(doc) THEN doc ELSE List(<<doc>>)

\* if isinstance(data, dict): data = find_array(data)
locate(doc) == IF IsDict(doc) THEN find_array(doc) ELSE doc

\* convert(), up to the parsed response: the URL check, the fetch, resp.json().
\* The fetch is where the greenlet yields to the other requests.
convert_fetch(j) ==
    /\ pc[j] = "start"
    /\ IF source[j].status = "ok"
       THEN /\ pc' = bind(pc, j, "fetched")
            /\ data' = bind(data, j, source[j].body)
            /\ error' = error
       ELSE /\ pc' = bind(pc, j, "error")
            /\ data' = data
            /\ error' = bind(error, j,
                   CASE source[j].status = "bad_url" -> "Please enter a valid URL"
                     [] source[j].status = "fetch_error" -> "Could not fetch URL"
                     [] source[j].status = "invalid_json" -> "The URL did not return valid JSON")
    /\ UNCHANGED <<source, flat_rows, columns, idx, out, cli>>

\* convert(), from the parsed response to the Response that wraps generate().
convert_build(j) ==
    /\ pc[j] = "fetched"
    /\ LET located == locate(data[j])
       IN IF ~IsList(located)
          THEN /\ pc' = bind(pc, j, "error")
               /\ error' = bind(error, j, "JSON must be an array or contain one")
               /\ data' = bind(data, j, located)
               /\ UNCHANGED <<flat_rows, columns>>
          ELSE LET agg == aggregate_loop(located.cs, 1, << >>, {})
               IN /\ pc' = bind(pc, j, "stream")
                  /\ data' = bind(data, j, located)
                  /\ flat_rows' = bind(flat_rows, j, agg.flat_rows)
                  /\ columns' = bind(columns, j, sorted(agg.all_keys))
                  /\ error' = error
    /\ UNCHANGED <<source, idx, out, cli>>

\* generate(), to its first yield: the header.
generate_header(j) ==
    /\ pc[j] = "stream"
    /\ out' = bind(out, j, Append(out[j], writeheader(columns[j])))
    /\ pc' = bind(pc, j, "rows")
    /\ UNCHANGED <<source, error, data, flat_rows, columns, idx, cli>>

\* Variant: for row in reversed(flat_rows).
generate_row_reversed(j) ==
    /\ pc[j] = "rows"
    /\ idx[j] < Len(flat_rows[j])
    /\ out' = bind(out, j, Append(out[j],
                  writerow(columns[j], flat_rows[j][Len(flat_rows[j]) - idx[j]])))
    /\ idx' = bind(idx, j, idx[j] + 1)
    /\ UNCHANGED <<source, pc, error, data, flat_rows, columns, cli>>

\* generate(), one turn of `for row in flat_rows`, to its yield.
generate_row(j) ==
    /\ pc[j] = "rows"
    /\ idx[j] < Len(flat_rows[j])
    /\ out' = bind(out, j, Append(out[j], writerow(columns[j], flat_rows[j][idx[j] + 1])))
    /\ idx' = bind(idx, j, idx[j] + 1)
    /\ UNCHANGED <<source, pc, error, data, flat_rows, columns, cli>>

\* generate() returns: the loop is exhausted.
generate_end(j) ==
    /\ pc[j] = "rows"
    /\ idx[j] = Len(flat_rows[j])
    /\ pc' = bind(pc, j, "done")
    /\ UNCHANGED <<source, error, data, flat_rows, columns, idx, out, cli>>

\* convert.py convert(source): the whole run, on the document of source[1].
cli_convert ==
    /\ cli.pc = "start"
    /\ IF source[1].status # "ok"
       THEN cli' = [cli EXCEPT !.pc = "exit"]
       ELSE LET doc == source[1].body
                located == IF IsDict(doc) THEN cli_locate(doc) ELSE doc
            IN IF ~IsList(located)
               THEN cli' = [cli EXCEPT !.pc = "exit", !.data = located]
               ELSE LET agg == cli_aggregate_loop(located.cs, 1, << >>, {})
                        cols == sorted(agg.all_keys)
                    IN cli' = [pc |-> "done", data |-> located,
                               flat_rows |-> agg.flat_rows, columns |-> cols,
                               file |-> <<writeheader(cols)>> \o writerows(cols, agg.flat_rows)]
    /\ UNCHANGED <<source, pc, error, data, flat_rows, columns, idx, out>>

Next ==
    \/ \E j \in Jobs : convert_fetch(j)
    \/ \E j \in Jobs : convert_build(j)
    \/ \E j \in Jobs : generate_header(j)
    \/ \E j \in Jobs : generate_row(j)
    \/ \E j \in Jobs : generate_end(j)
    \/ cli_convert

Spec == Init /\ [][Next]_vars

SpecConcurrent == InitConcurrent /\ [][Next]_vars

(* ================================================================ claims *)
\* The handler of request j has gone past the fetch and past convert_build.
Parsed(j) == source[j].status = "ok" /\ pc[j] \in {"error", "stream", "rows", "done"}

\* convert() of request j has built its Response (the generator may have run).
Built(j) == pc[j] \in {"stream", "rows", "done"}

Document(j) == source[j].body

Elements(seq) == {seq[i] : i \in 1..Len(seq)}

StrictlyAscending(seq) == \A i \in 1..(Len(seq) - 1) : StrLess(seq[i], seq[i + 1])

\* C1: the header's column list is exactly the union of the flattened keys of
\* all located rows, each column once, in ascending order of the column name;
\* in the web handler and in the CLI run alike.
C1_ColumnsAreSortedKeyUnion ==
    /\ \A j \in Jobs : Built(j) =>
          /\ Elements(columns[j])
                = UNION {DOMAIN flatten(data[j].cs[r], << >>) : r \in 1..Len(data[j].cs)}
          /\ StrictlyAscending(columns[j])
    /\ cli.pc = "done" =>
          /\ Elements(cli.columns)
                = UNION {DOMAIN cli_flatten(cli.data.cs[r], << >>) : r \in 1..Len(cli.data.cs)}
          /\ StrictlyAscending(cli.columns)

\* C1 witness: three rows with different key sets aggregated into the columns
\* "", "a", "b".
C1_Witness ==
    /\ Built(1)
    /\ Len(data[1].cs) = 3
    /\ columns[1] = <<KeyEmpty, KeyA, KeyB>>
    /\ \A r \in 1..3 : DOMAIN flat_rows[1][r] # Elements(columns[1])

\* The fields the claim gives the chunk of one row: per column, in order, the
\* value flatten(row) holds there, an empty field where it holds none.
RowFields(cols, row) ==
    LET flat == flatten(row, << >>)
    IN [c \in 1..Len(cols) |-> IF cols[c] \in DOMAIN flat THEN field_text(flat[cols[c]]) ELSE << >>]

\* C2: the chunks of a job are the header, once and first, written from the
\* final columns, then one chunk per located row, the k-th rendering the k-th
\* row (value per column, empty where the key is missing); nothing is
\* skipped, duplicated or reordered, and the stream ends after the n-th row.
C2_ChunkSequence ==
    \A j \in Jobs :
        /\ pc[j] \in {"none", "start", "fetched", "error", "stream"} => out[j] = << >>
        /\ pc[j] \in {"rows", "done"} =>
              /\ Len(out[j]) = idx[j] + 1
              /\ idx[j] <= Len(data[j].cs)
              /\ out[j][1] = columns[j]
              /\ columns[j] = sorted(UNION {DOMAIN flatten(data[j].cs[r], << >>)
                                               : r \in 1..Len(data[j].cs)})
              /\ \A k \in 1..idx[j] : out[j][k + 1] = RowFields(columns[j], data[j].cs[k])
        /\ pc[j] = "done" => idx[j] = Len(data[j].cs)

\* C2 witness: a finished stream of three distinct rows, one of which lacks a
\* column of the header.
C2_Witness ==
    /\ pc[1] = "done"
    /\ Len(out[1]) = 4
    /\ out[1][2] # out[1][3] /\ out[1][3] # out[1][4] /\ out[1][2] # out[1][4]
    /\ \E k \in 1..3 : \E c \in 1..Len(columns[1]) : columns[1][c] \notin DOMAIN flat_rows[1][k]

\* The located rows of request j are none, or flatten to no column at all.
EmptyInput(j) ==
    /\ IsList(data[j])
    /\ \A r \in 1..Len(data[j].cs) : flatten(data[j].cs[r], << >>) = EmptyDict

\* C3: a conversion whose located rows are none, or yield no column, ends in
\* an error and emits no CSV output.
C3_EmptyResultIsAnError ==
    \A j \in Jobs :
        (Parsed(j) /\ EmptyInput(j) /\ pc[j] \in {"error", "done"})
            => (pc[j] = "error" /\ out[j] = << >>)

(* ---------------------------------------------------------- the locator *)
Min(S) == CHOOSE x \in S : \A y \in S : x <= y

NonEmptyArrays(o) == {i \in 1..Len(o.cs) : IsList(o.cs[i]) /\ Len(o.cs[i].cs) > 0}
ObjectMembers(o) == {i \in 1..Len(o.cs) : IsDict(o.cs[i])}

\* The objects the descent on the document of request j scans, root first.
Visited(j) == find_array_visited(Document(j))

\* C4 as claimed: at every object the descent visits, a non-empty array
\* among the members is returned (the first such), whatever objects precede
\* it; the descent enters the first object member only when there is none.
C4_FirstArrayWinsOverObjects ==
    \A j \in Jobs : (Parsed(j) /\ IsDict(Document(j))) =>
        \A k \in 1..Len(Visited(j)) :
            LET o == Visited(j)[k]
            IN /\ NonEmptyArrays(o) # {} => data[j] = o.cs[Min(NonEmptyArrays(o))]
               /\ (NonEmptyArrays(o) = {} /\ ObjectMembers(o) # {}) =>
                     /\ k < Len(Visited(j))
                     /\ Visited(j)[k + 1] = o.cs[Min(ObjectMembers(o))]

\* C4 amended: the descent starts at the root, and at every object it visits
\* the first member, in insertion order, that is a non-empty array or an
\* object decides: a non-empty array is returned as the row sequence, an
\* object is descended into and the scan restarts there. A non-empty array
\* is returned only if no object member precedes it in its object. The CLI
\* run locates the same rows.
C4_FirstArrayOrObjectDecides ==
    /\ \A j \in Jobs : (Parsed(j) /\ IsDict(Document(j))) =>
          /\ Visited(j)[1] = Document(j)
          /\ \A k \in 1..Len(Visited(j)) :
                LET o == Visited(j)[k]
                    hits == NonEmptyArrays(o) \cup ObjectMembers(o)
                IN hits # {} =>
                      IF IsList(o.cs[Min(hits)])
                      THEN k = Len(Visited(j)) /\ data[j] = o.cs[Min(hits)]
                      ELSE k < Len(Visited(j)) /\ Visited(j)[k + 1] = o.cs[Min(hits)]
    /\ (cli.pc = "done" /\ IsDict(Document(1))) =>
          LET o == Visited(1)[Len(Visited(1))]
              hits == NonEmptyArrays(o) \cup ObjectMembers(o)
          IN hits # {} => cli.data = o.cs[Min(hits)]

\* C4 witness: the root holds an object before a non-empty array, and the
\* rows are the array found inside the object, two levels down.
C4_Witness ==
    /\ Parsed(1) /\ IsDict(Document(1))
    /\ Len(Document(1).cs) = 2
    /\ IsDict(Document(1).cs[1])
    /\ Document(1).cs[2] = ItemsA
    /\ Len(Visited(1)) = 3
    /\ data[1] = ItemsB

\* C5: when the descent stops at an object with no non-empty array and no
\* object among its members, the rows are the one-element sequence holding
\* the whole root document, even with a non-empty array in a sibling off the
\* descent path; {"meta":{"ok":true},"items":[{"x":1}]} converts as one row.
C5_FallbackIsWholeDocument ==
    /\ \A j \in Jobs : (Parsed(j) /\ IsDict(Document(j))) =>
          LET o == Visited(j)[Len(Visited(j))]
          IN /\ (NonEmptyArrays(o) = {} /\ ObjectMembers(o) = {}) =>
                    /\ data[j] = List(<<Document(j)>>)
                    /\ pc[j] # "error"
                    /\ flat_rows[j] = <<flatten(Document(j), << >>)>>
             /\ Document(j) = MetaItemsDoc => data[j] = List(<<MetaItemsDoc>>)
    /\ (cli.pc # "start" /\ source[1].status = "ok" /\ IsDict(Document(1))) =>
          LET o == Visited(1)[Len(Visited(1))]
          IN (NonEmptyArrays(o) = {} /\ ObjectMembers(o) = {}) =>
                 (cli.pc = "done" /\ cli.data = List(<<Document(1)>>))

\* C5 witness: the example document, streamed to the end as header and one row.
C5_Witness ==
    /\ Document(1) = MetaItemsDoc
    /\ pc[1] = "done"
    /\ data[1] = List(<<MetaItemsDoc>>)
    /\ Len(out[1]) = 2

KeyStep(k) == [kind |-> "key", key |-> k, index |-> 0]
IndexStep(i) == [kind |-> "index", key |-> << >>, index |-> i]

StepTo(v, i) == IF IsDict(v) THEN KeyStep(v.ks[i]) ELSE IndexStep(i - 1)

RECURSIVE Paths(_)
Paths(v) ==
    {<< >>} \cup UNION {{<<StepTo(v, i)>> \o p : p \in Paths(v.cs[i])} : i \in 1..Len(v.cs)}

RECURSIVE At(_, _)
At(v, p) ==
    IF p = << >> THEN v
    ELSE LET i == CHOOSE m \in 1..Len(v.cs) : StepTo(v, m) = Head(p)
         IN At(v.cs[i], Tail(p))

LeafPaths(v) == {p \in Paths(v) : IsScalar(At(v, p))}

\* No scalar leaf in the subtree: an empty container, or containers of such.
Leafless(v) == LeafPaths(v) = {}

\* The flattened key of a path: ".key" per dict step (a bare key while the
\* key so far is empty), "[index]" per list step.
RECURSIVE PathKeyFrom(_, _)
PathKeyFrom(key, p) ==
    IF p = << >> THEN key
    ELSE LET step == Head(p)
             next == IF step.kind = "index"
                     THEN key \o <<"[">> \o IntStr(step.index) \o <<"]">>
                     ELSE IF key # << >> THEN key \o <<".">> \o step.key ELSE step.key
         IN PathKeyFrom(next, Tail(p))

PathKey(p) == PathKeyFrom(<< >>, p)

\* C7: every flattened row has one entry per scalar leaf of the row: no two
\* leaves share a key, whatever the object keys are.
C7_OneEntryPerLeaf ==
    \A j \in Jobs : Built(j) =>
        \A r \in 1..Len(data[j].cs) :
            Cardinality(DOMAIN flat_rows[j][r]) = Cardinality(LeafPaths(data[j].cs[r]))

StartsWith(k, q) == Len(k) >= Len(q) /\ SubSeq(k, 1, Len(q)) = q

\* Every key in the value is non-empty and free of '.', '[' and ']'.
PlainKeys(v) ==
    \A p \in Paths(v) : \A i \in 1..Len(p) :
        p[i].kind = "key" =>
            /\ p[i].key # << >>
            /\ \A c \in 1..Len(p[i].key) : p[i].key[c] \notin {".", "[", "]"}

C9_WitnessEmptyRow ==
    /\ Built(1)
    /\ Len(data[1].cs) = 1
    /\ Len(data[1].cs[1].cs) = 2
    /\ flat_rows[1] = <<EmptyDict>>

(* ---------------------------------------------------------- the variants *)
\* C10: on every parsed document the web handler and the CLI run both reject
\* it, or locate the same rows, compute the same sorted columns and the same
\* flattened rows in the same order.
C10_VariantsAgree ==
    (Parsed(1) /\ cli.pc # "start") =>
        /\ pc[1] = "error" <=> cli.pc = "exit"
        /\ pc[1] # "error" =>
              /\ cli.data = data[1]
              /\ cli.columns = columns[1]
              /\ cli.flat_rows = flat_rows[1]

\* C10 witness: both variants have converted a root object whose rows were
\* found two objects down.
C10_Witness ==
    /\ pc[1] = "done" /\ cli.pc = "done"
    /\ IsDict(Document(1))
    /\ Len(Visited(1)) = 3
    /\ data[1] = ItemsB
    /\ cli.flat_rows = flat_rows[1]

(* ----------------------------------------------------------- concurrency *)
\* What a request emits when served alone: nothing when it fails, else the
\* header and the rows of its own document.
AloneRows(src) == locate(src.body)
AloneAggregate(src) == aggregate_loop(AloneRows(src).cs, 1, << >>, {})
AloneColumns(src) == sorted(AloneAggregate(src).all_keys)
AloneChunks(src) ==
    IF src.status # "ok" \/ ~IsList(AloneRows(src)) THEN << >>
    ELSE <<writeheader(AloneColumns(src))>>
            \o writerows(AloneColumns(src), AloneAggregate(src).flat_rows)

\* C8: under every interleaving of the requests' steps, each request's rows,
\* columns and chunks are those of the request served alone (the chunks so
\* far a prefix, the finished stream the whole), and a failed request has no
\* output.
C8_JobsDoNotInterfere ==
    \A j \in Jobs :
        /\ LET alone == AloneChunks(source[j])
           IN /\ Len(out[j]) <= Len(alone)
              /\ out[j] = SubSeq(alone, 1, Len(out[j]))
              /\ pc[j] = "done" => out[j] = alone
        /\ pc[j] = "error" => out[j] = << >>
        /\ Built(j) =>
              /\ data[j] = AloneRows(source[j])
              /\ columns[j] = AloneColumns(source[j])
              /\ flat_rows[j] = AloneAggregate(source[j]).flat_rows

\* C8 witness: two requests for different documents are both in mid-stream,
\* each with one of its two rows written.
C8_Witness ==
    /\ source[1] # source[2]
    /\ pc[1] = "rows" /\ idx[1] = 1 /\ Len(flat_rows[1]) = 2
    /\ pc[2] = "rows" /\ idx[2] = 1 /\ Len(flat_rows[2]) = 2

\* C8 witness of the failure case: request 1 failed, request 2 streamed all.
C8_WitnessFailure ==
    /\ pc[1] = "error"
    /\ pc[2] = "done" /\ Len(out[2]) = 3

====
